---- MODULE Spec2Model ----
(***************************************************************************)
(* Model of lpsolver/solver.py: the tableau simplex engine LPSolver, of    *)
(* lpsolver/model.py: LPModel in front of it, and of lpsolver/variables.py:*)
(* the operators that build expressions and constraints.                   *)
(*                                                                         *)
(* Numbers.  The tableau holds IEEE doubles.  A double is modelled as a    *)
(* pair <<n, d>>:                                                          *)
(*     <<n, d>>, d > 0, n # 0, gcd(|n|, d) = 1   the finite value n/d      *)
(*     <<0, 1>>  +0.0          <<0, -1>>  -0.0                             *)
(*     <<1, 0>>  +inf          <<-1, 0>>  -inf         <<0, 0>>  nan       *)
(* Finite arithmetic is exact (no rounding); the special values follow     *)
(* IEEE 754 as numpy computes them (division by zero does not raise).      *)
(* The inputs are small integers, for which every finite value the code    *)
(* computes is either 0 or further than 1e-10 from 0.                      *)
(* Indices (columns, basis entries, leaving rows) are 0-based as in the    *)
(* source; sequences are 1-based, hence the "+ 1" in subscripts.           *)
(***************************************************************************)
EXTENDS Integers, Sequences, FiniteSets, TLC

\* ------------------------------------------------------------------------
\* Bounds of the explored inputs
\* ------------------------------------------------------------------------
MaxN == 2
MaxM == 2
MaxAbs == 1
MaxWide == 2
MaxCap == 6
MaxReuseN == 2
MaxReuseM == 1
MaxProbeSize == 2
GridDen == 2
GridMax == 12
MaxModelVars == 2
MaxModelRows == 2
MaxModelSize == 2
MaxModelCoef == 1
MaxModelConst == 1
MaxModelRhs == 2
MaxOps == 3
MaxNumber == 2

\* ------------------------------------------------------------------------
\* State
\* ------------------------------------------------------------------------
VARIABLES
    c, A, b, max_iterations,      \* the arguments of the call: the caller's arrays and the cap
    tableau, num_variables, num_constraints, basis, objective_value, solution,
                                  \* the fields of the LPSolver instance
    iteration,                    \* the local of solve
    pc,                           \* "idle", "loop" (at the while test), "done", "raised"
    result,                       \* the dictionary returned by solve
    pivots,                       \* history: pivot operations performed in this call
    visited,                      \* history: the bases this call has been in
    args0,                        \* history: the caller's arrays as they were at the call
    memo,                         \* history: arguments and outcome of an earlier call
    interleaved,                  \* history: a call with other arguments came after memo
    model,                        \* the LPModel: variables, constraints, objective, sense
    value,                        \* the object the last operator of variables.py returned
    algebra,                      \* history: the operands of value combined term by term
    ops                           \* history: operators applied so far

vars == <<c, A, b, max_iterations, tableau, num_variables, num_constraints, basis,
          objective_value, solution, iteration, pc, result, pivots, visited, args0,
          memo, interleaved, model, value, algebra, ops>>

fields == <<tableau, num_variables, num_constraints, basis, objective_value, solution>>
history == <<pivots, visited, args0, memo, interleaved>>
\* the state of the modelling layer in front of the solver
front == <<model, value, algebra, ops>>
building == <<value, algebra, ops>>

\* ------------------------------------------------------------------------
\* Doubles
\* ------------------------------------------------------------------------
None == <<>>

NaN == <<0, 0>>
PInf == <<1, 0>>
NInf == <<-1, 0>>
PZero == <<0, 1>>
NZero == <<0, -1>>

Abs(k) == IF k < 0 THEN -k ELSE k

RECURSIVE Gcd(_, _)
Gcd(p, q) == IF q = 0 THEN p ELSE Gcd(q, p % q)

\* the double of an integer (np.array of ints converted to float64)
FromInt(k) == <<k, 1>>

\* the float64 stored for element v of an array of the given dtype: "int" for
\* arrays (or lists) of integers, "float64" for arrays that hold doubles already
float64(dtype, v) == IF dtype = "int" THEN FromInt(v) ELSE v

\* the finite nonzero value n/d (d > 0, n # 0) in lowest terms
Norm(n, d) == LET g == Gcd(Abs(n), d) IN <<n \div g, d \div g>>

IsNaN(x) == x = NaN
IsInf(x) == x[2] = 0 /\ x[1] # 0
IsZero(x) == x[1] = 0 /\ x[2] # 0
IsFinite(x) == x[2] # 0
\* sign bit
SignBit(x) == x[1] < 0 \/ x = NZero
SignedZero(neg) == IF neg THEN NZero ELSE PZero
SignedInf(neg) == IF neg THEN NInf ELSE PInf

FNeg(x) ==
    IF IsNaN(x) THEN NaN
    ELSE IF IsZero(x) THEN <<0, -x[2]>>
    ELSE <<-x[1], x[2]>>

FAdd(x, y) ==
    IF IsNaN(x) \/ IsNaN(y) THEN NaN
    ELSE IF IsInf(x) /\ IsInf(y) THEN (IF x = y THEN x ELSE NaN)
    ELSE IF IsInf(x) THEN x
    ELSE IF IsInf(y) THEN y
    ELSE IF IsZero(x) /\ IsZero(y) THEN SignedZero(SignBit(x) /\ SignBit(y))
    ELSE IF IsZero(x) THEN y
    ELSE IF IsZero(y) THEN x
    ELSE LET n == x[1] * y[2] + y[1] * x[2]
         IN  IF n = 0 THEN PZero ELSE Norm(n, x[2] * y[2])

FSub(x, y) == FAdd(x, FNeg(y))

FMul(x, y) ==
    LET neg == SignBit(x) # SignBit(y)
    IN  IF IsNaN(x) \/ IsNaN(y) THEN NaN
        ELSE IF IsInf(x) \/ IsInf(y)
             THEN (IF IsZero(x) \/ IsZero(y) THEN NaN ELSE SignedInf(neg))
        ELSE IF IsZero(x) \/ IsZero(y) THEN SignedZero(neg)
        ELSE Norm(x[1] * y[1], x[2] * y[2])

FDiv(x, y) ==
    LET neg == SignBit(x) # SignBit(y)
    IN  IF IsNaN(x) \/ IsNaN(y) THEN NaN
        ELSE IF IsInf(x) /\ IsInf(y) THEN NaN
        ELSE IF IsZero(x) /\ IsZero(y) THEN NaN
        ELSE IF IsInf(x) THEN SignedInf(neg)
        ELSE IF IsInf(y) THEN SignedZero(neg)
        ELSE IF IsZero(y) THEN SignedInf(neg)
        ELSE IF IsZero(x) THEN SignedZero(neg)
        ELSE Norm((IF neg THEN -1 ELSE 1) * Abs(x[1]) * y[2], x[2] * Abs(y[1]))

\* x < y on doubles: false when either is nan, -0.0 = +0.0
FLt(x, y) ==
    IF IsNaN(x) \/ IsNaN(y) THEN FALSE
    ELSE IF x = PInf \/ y = NInf THEN FALSE
    ELSE IF x = NInf \/ y = PInf THEN TRUE
    ELSE x[1] * Abs(y[2]) < y[1] * Abs(x[2])

\* x <= y and x == y on doubles
FLe(x, y) == ~IsNaN(x) /\ ~IsNaN(y) /\ ~FLt(y, x)
FEq(x, y) == FLe(x, y) /\ FLe(y, x)

\* x >= 0 on doubles
FGeZero(x) == ~IsNaN(x) /\ ~FLt(x, PZero)

\* The tolerance 1e-10 is 1 / (EpsRoot * EpsRoot).
EpsRoot == 100000

\* x > 1e-10.  For finite n/d with n > 0: n/d > 1/E  <=>  floor(d/n) < E,
\* and with E = EpsRoot^2:  floor(d/n) < E  <=>  floor(floor(d/n)/EpsRoot) < EpsRoot.
GtEps(x) ==
    IF IsNaN(x) THEN FALSE
    ELSE IF IsInf(x) THEN x = PInf
    ELSE x[1] > 0 /\ ((x[2] \div x[1]) \div EpsRoot) < EpsRoot

\* x < -1e-10
LtNegEps(x) == GtEps(FNeg(x))
\* x >= -1e-10
GeNegEps(x) == ~IsNaN(x) /\ ~LtNegEps(x)
\* x <= 1e-10
LeEps(x) == ~IsNaN(x) /\ ~GtEps(x)
\* np.isclose(x, 0, atol=1e-10): |x - 0| <= 1e-10 + rtol * |0|, false for inf and nan
IsCloseZero(x) == IsFinite(x) /\ ~GtEps(x) /\ ~LtNegEps(x)

\* ------------------------------------------------------------------------
\* LPSolver: the pure parts
\* ------------------------------------------------------------------------
\* "return None" of get_entering_variable / get_leaving_variable
NoneIdx == -1

\* float('inf') of the ratio list
RatioInf == PInf

\* default of the parameter max_iterations of solve
DefaultMaxIterations == 1000

\* standard_form: A_new = hstack([A, eye(m)]), c_new = hstack([c, zeros(m)]),
\* b is returned as it was passed (the caller's array itself)
\* dtype is the element type of the caller's arrays, which np.hstack converts
standard_form_of(c_in, A_in, b_in, dtype) ==
    LET m == Len(A_in)
        n == Len(c_in)
    IN  [c_new |-> [j \in 1..(n + m) |-> IF j <= n THEN float64(dtype, c_in[j]) ELSE PZero],
         A_new |-> [i \in 1..m |-> [j \in 1..(n + m) |->
                       IF j <= n THEN float64(dtype, A_in[i][j])
                       ELSE IF j = n + i THEN FromInt(1) ELSE PZero]],
         b |-> b_in]

\* standard_form on arrays (or lists) of integers
standard_form(c_in, A_in, b_in) == standard_form_of(c_in, A_in, b_in, "int")

\* create_initial_tableau: zeros((m + 1, n + 1)); row 0 = -c, rows 1.. = [A | b]
\* dtype is the element type of b, which the assignment tableau[1:, -1] = b converts
create_initial_tableau_of(c_std, A_std, b_std, dtype) ==
    LET m == Len(A_std)
        n == Len(c_std)
    IN  [i \in 1..(m + 1) |-> [j \in 1..(n + 1) |->
            IF i = 1 THEN (IF j <= n THEN FNeg(c_std[j]) ELSE PZero)
            ELSE IF j <= n THEN A_std[i - 1][j] ELSE float64(dtype, b_std[i - 1])]]

\* create_initial_tableau with a right-hand side of integers
create_initial_tableau(c_std, A_std, b_std) ==
    create_initial_tableau_of(c_std, A_std, b_std, "int")

\* initialize_basis: list(range(num_variables - num_constraints, num_variables))
initialize_basis(nv, nc) == [i \in 1..nc |-> nv - nc + i - 1]

\* get_entering_variable with the scan starting at column 1 instead of column 0
get_entering_variable_SkipFirst(T) ==
    LET ncols == Len(T[1]) - 1
        qual == {j \in 1..(ncols - 1) :
                    LtNegEps(T[1][j + 1]) /\ ~IsCloseZero(T[1][j + 1])}
    IN  IF qual = {} THEN NoneIdx
        ELSE CHOOSE j \in qual : \A k \in qual : j <= k

\* get_entering_variable choosing the most negative coefficient, not the first
get_entering_variable_MostNegative(T) ==
    LET ncols == Len(T[1]) - 1
        qual == {j \in 0..(ncols - 1) :
                    LtNegEps(T[1][j + 1]) /\ ~IsCloseZero(T[1][j + 1])}
    IN  IF qual = {} THEN NoneIdx
        ELSE CHOOSE j \in qual :
                /\ \A k \in qual : ~FLt(T[1][k + 1], T[1][j + 1])
                /\ \A k \in qual : FEq(T[1][k + 1], T[1][j + 1]) => j <= k

\* get_entering_variable testing the sign the wrong way round (coeff > 1e-10)
get_entering_variable_WrongSign(T) ==
    LET ncols == Len(T[1]) - 1
        qual == {j \in 0..(ncols - 1) : GtEps(T[1][j + 1])}
    IN  IF qual = {} THEN NoneIdx
        ELSE CHOOSE j \in qual : \A k \in qual : j <= k

\* get_entering_variable on tableau T
get_entering_variable(T) ==
    LET ncols == Len(T[1]) - 1
        qual == {j \in 0..(ncols - 1) :
                    LtNegEps(T[1][j + 1]) /\ ~IsCloseZero(T[1][j + 1])}
    IN  IF \A j \in 0..(ncols - 1) : GeNegEps(T[1][j + 1]) THEN NoneIdx
        ELSE IF qual = {} THEN NoneIdx
        ELSE CHOOSE j \in qual : \A k \in qual : j <= k

\* the list "ratios" of get_leaving_variable: pairs <<ratio, i>>
ratios(T, entering_idx) ==
    [i \in 1..(Len(T) - 1) |->
        LET col == T[i + 1][entering_idx + 1]
            rhs == T[i + 1][Len(T[1])]
        IN  IF GtEps(col) THEN <<FDiv(rhs, col), i - 1>> ELSE <<RatioInf, i - 1>>]

\* the generator (r for r in ratios if r[0] >= 0)
nonneg_ratios(T, entering_idx) ==
    LET keep(r) == FGeZero(r[1]) IN SelectSeq(ratios(T, entering_idx), keep)

\* min(seq, key=lambda x: x[0]): the first element whose key no other undercuts
RECURSIVE min_by_key(_, _, _)
min_by_key(seq, k, best) ==
    IF k > Len(seq) THEN best
    ELSE min_by_key(seq, k + 1, IF FLt(seq[k][1], best[1]) THEN seq[k] ELSE best)

\* the unboundedness test written as all(column < -1e-10)
column_nonpositive_Strict(T, entering_idx) ==
    \A i \in 1..(Len(T) - 1) : LtNegEps(T[i + 1][entering_idx + 1])

\* all(column <= 1e-10)
column_nonpositive(T, entering_idx) ==
    \A i \in 1..(Len(T) - 1) : LeEps(T[i + 1][entering_idx + 1])

\* min() of an empty sequence raises ValueError
leaving_raises(T, entering_idx) ==
    /\ ~column_nonpositive(T, entering_idx)
    /\ nonneg_ratios(T, entering_idx) = <<>>

\* get_leaving_variable returning the first row with a positive entry, without
\* comparing ratios
get_leaving_variable_FirstCandidate(T, entering_idx) ==
    IF column_nonpositive(T, entering_idx) THEN NoneIdx
    ELSE (CHOOSE i \in 1..(Len(T) - 1) :
            /\ GtEps(T[i + 1][entering_idx + 1])
            /\ \A k \in 1..(i - 1) : ~GtEps(T[k + 1][entering_idx + 1])) - 1

\* get_leaving_variable (where it does not raise)
get_leaving_variable(T, entering_idx) ==
    IF column_nonpositive(T, entering_idx) THEN NoneIdx
    ELSE LET s == nonneg_ratios(T, entering_idx)
         IN  min_by_key(s, 2, s[1])[2]

\* pivot: the tableau after the row operations
pivot_tableau(T, entering_idx, leaving_idx) ==
    LET pivot_row == leaving_idx + 1
        pivot_element == T[pivot_row + 1][entering_idx + 1]
        normalized == [k \in 1..Len(T[1]) |-> FDiv(T[pivot_row + 1][k], pivot_element)]
    IN  [i \in 1..Len(T) |->
            IF i = pivot_row + 1 THEN normalized
            ELSE [k \in 1..Len(T[1]) |->
                    FSub(T[i][k], FMul(T[i][entering_idx + 1], normalized[k]))]]

\* pivot: self.basis[leaving_idx] = entering_idx
pivot_basis(bs, entering_idx, leaving_idx) ==
    [bs EXCEPT ![leaving_idx + 1] = entering_idx]

\* extract_solution: solution[var_idx] = tableau[i + 1, -1] for the basic
\* original variables (a later row overwrites an earlier one), others 0.0
RECURSIVE fill_solution(_, _, _, _, _)
fill_solution(sol, T, bs, nstruct, i) ==
    IF i > Len(bs) THEN sol
    ELSE fill_solution(
            IF bs[i] < nstruct THEN [sol EXCEPT ![bs[i] + 1] = T[i + 1][Len(T[1])]] ELSE sol,
            T, bs, nstruct, i + 1)

\* extract_solution writing into the solution vector left by the previous call
\* (when it has the right length) instead of a fresh np.zeros
extract_solution_StaleBuffer(T, bs, nv, nc) ==
    LET start == IF Len(solution) = nv - nc
                 THEN [j \in 1..nv |-> IF j <= nv - nc THEN solution[j] ELSE PZero]
                 ELSE [j \in 1..nv |-> PZero]
        full == fill_solution(start, T, bs, nv - nc, 1)
    IN  [solution |-> SubSeq(full, 1, nv - nc),
         objective_value |-> FNeg(T[1][Len(T[1])])]

extract_solution(T, bs, nv, nc) ==
    LET full == fill_solution([j \in 1..nv |-> PZero], T, bs, nv - nc, 1)
    IN  [solution |-> SubSeq(full, 1, nv - nc),
         objective_value |-> FNeg(T[1][Len(T[1])])]

\* ------------------------------------------------------------------------
\* Inputs
\* ------------------------------------------------------------------------
Vals == (-MaxAbs)..MaxAbs

\* every problem (c, A, b) with n <= maxn variables, m <= maxm rows and entries
\* of c, A, b in CV, AV, BV
ProblemsOver(CV, AV, BV, maxn, maxm) ==
    UNION {{[c |-> cc, A |-> AA, b |-> bb] :
                cc \in [1..s[1] -> CV], AA \in [1..s[2] -> [1..s[1] -> AV]], bb \in [1..s[2] -> BV]} :
           s \in (1..maxn) \X (1..maxm)}

\* problems of any sign
GridProblems == ProblemsOver(Vals, Vals, Vals, MaxN, MaxM)

\* problems with b >= 0 and larger entries: pivots on 2, fractions, ratio ties
WideProblems == ProblemsOver(1..MaxWide, {-1, 1, MaxWide}, 0..MaxWide, MaxN, MaxM)

\* maximize 3x + 4y s.t. 2x + 3y <= 6, -3x + 2y <= 3 (examples/basic_usage.py)
Scenario1 == [c |-> <<3, 4>>, A |-> <<<<2, 3>>, <<-3, 2>>>>, b |-> <<6, 3>>]
\* maximize x s.t. x <= 5
Scenario2 == [c |-> <<1>>, A |-> <<<<1>>>>, b |-> <<5>>]
\* maximize x s.t. x >= 0, written as the row -x <= 0
Scenario3 == [c |-> <<1>>, A |-> <<<<-1>>>>, b |-> <<0>>]
\* a degenerate problem (every right-hand side 0) with 5 variables and 3 rows
Degenerate53 ==
    [c |-> <<1, -1, -1, 3, 0>>,
     A |-> <<<<-2, -3, -1, 3, -3>>, <<3, 2, -3, 1, -2>>, <<2, -2, 1, 1, 0>>>>,
     b |-> <<0, 0, 0>>]

Scenarios == {Scenario1, Scenario2, Scenario3, Degenerate53}

\* values of max_iterations: negative, zero, one, and one no terminating run of
\* the small problems reaches; the named problems also run with the default
Caps == {-1, 0, 1, MaxCap}

WithCaps(P, K) == {[c |-> p.c, A |-> p.A, b |-> p.b, max_iterations |-> k] : p \in P, k \in K}

CallArgs ==
    WithCaps(GridProblems \cup WideProblems, Caps)
        \cup WithCaps(Scenarios, Caps \cup {DefaultMaxIterations})

\* inputs of the calls that share one solver instance
ReuseArgs ==
    WithCaps(ProblemsOver({-1, 1}, {-1, 1}, {-1, 1}, MaxReuseN, MaxReuseM) \cup {Scenario1, Scenario2},
             {1, DefaultMaxIterations})

\* the calls whose outcome is remembered for comparison with a later call
ProbeArgs == {a \in ReuseArgs : Len(a.c) + Len(a.A) <= MaxProbeSize} 
                \cup WithCaps({Scenario1}, {DefaultMaxIterations})

\* ------------------------------------------------------------------------
\* The solver instance and the call of solve
\* ------------------------------------------------------------------------
\* lpsolver/model.py and lpsolver/variables.py: the modelling layer
\* ------------------------------------------------------------------------
\* LPModel.__init__
LPModel == [variables |-> <<>>, constraints |-> <<>>, objective |-> None, sense |-> "maximize"]

\* LPVariable.__init__: the index is set by add_variable
LPVariable(name, lower_bound, upper_bound) ==
    [name |-> name, lower_bound |-> lower_bound, upper_bound |-> upper_bound, index |-> None]

\* LPExpression.__init__: terms maps variables (hashed by name) to coefficients
\* copies: the keys of terms that are copies made by copy.deepcopy, not the
\* LPVariable objects the caller holds
LPExpression(terms, constant) == [terms |-> terms, constant |-> constant, copies |-> {}]

\* LPConstraint.__init__
LPConstraint(lhs, sense, rhs) == [lhs |-> lhs, sense |-> sense, rhs |-> rhs]

\* the coefficient np.zeros leaves or the loop over expr.terms stores for variable v
stored_coef(expr, v) == IF v.name \in DOMAIN expr.terms THEN expr.terms[v.name] ELSE PZero

\* to_standard_form reaches its raise: some constraint has another sense
to_standard_form_raises(m) ==
    \E i \in 1..Len(m.constraints) : m.constraints[i].sense \notin {"<=", ">=", "="}

\* to_standard_form that negates the row of a '>=' constraint but not its bound
to_standard_form_BoundNotNegated(m) ==
    LET n_vars == Len(m.variables)
        n_constraints == Len(m.constraints)
    IN  [c |-> [j \in 1..n_vars |->
                   IF m.objective = None THEN PZero
                   ELSE IF m.variables[j].name \in DOMAIN m.objective.terms
                        THEN (IF m.sense = "maximize"
                              THEN m.objective.terms[m.variables[j].name]
                              ELSE FNeg(m.objective.terms[m.variables[j].name]))
                        ELSE PZero],
         A |-> [i \in 1..n_constraints |-> [j \in 1..n_vars |->
                   IF m.constraints[i].sense = ">="
                   THEN FNeg(stored_coef(m.constraints[i].lhs, m.variables[j]))
                   ELSE stored_coef(m.constraints[i].lhs, m.variables[j])]],
         b |-> [i \in 1..n_constraints |->
                   FSub(m.constraints[i].rhs, m.constraints[i].lhs.constant)]]

\* to_standard_form when it returns: c, A and b start as np.zeros
to_standard_form(m) ==
    LET n_vars == Len(m.variables)
        n_constraints == Len(m.constraints)
    IN  [c |-> [j \in 1..n_vars |->
                   IF m.objective = None THEN PZero
                   ELSE IF m.variables[j].name \in DOMAIN m.objective.terms
                        THEN (IF m.sense = "maximize"
                              THEN m.objective.terms[m.variables[j].name]
                              ELSE FNeg(m.objective.terms[m.variables[j].name]))
                        ELSE PZero],
         A |-> [i \in 1..n_constraints |-> [j \in 1..n_vars |->
                   IF m.constraints[i].sense = ">="
                   THEN FNeg(stored_coef(m.constraints[i].lhs, m.variables[j]))
                   ELSE stored_coef(m.constraints[i].lhs, m.variables[j])]],
         b |-> [i \in 1..n_constraints |->
                   IF m.constraints[i].sense = ">="
                   THEN FNeg(FSub(m.constraints[i].rhs, m.constraints[i].lhs.constant))
                   ELSE FSub(m.constraints[i].rhs, m.constraints[i].lhs.constant)]]

\* the exception a dictionary lookup ends in when it compares two distinct
\* LPVariable objects of one name: the __eq__ in force (the second definition)
\* builds {self: 1.0, other: -1.0}, whose construction compares them again
RecursionError == [raised |-> "RecursionError"]
Raised(v) == "raised" \in DOMAIN v

\* the dict display {k1: v1}
dict_single(k1, v1) == [k \in {k1} |-> v1]

\* the dict display {k1: v1, k2: v2}: a second item with the same key replaces the first
dict_display(k1, v1, k2, v2) == [k \in {k1, k2} |-> IF k = k2 THEN v2 ELSE v1]

\* copy.deepcopy of an expression: every key is a new LPVariable object
deepcopy(expr) == [expr EXCEPT !.copies = DOMAIN expr.terms]

\* abs(x) < 1e-10
AbsBelowEps(x) ==
    /\ IsFinite(x)
    /\ \/ x[1] = 0
       \/ LET q == Abs(x[2]) \div Abs(x[1])
          IN  \/ (q \div EpsRoot) > EpsRoot
              \/ /\ (q \div EpsRoot) = EpsRoot
                 /\ (q % EpsRoot > 0 \/ Abs(x[2]) % Abs(x[1]) > 0)

\* add_term for the key object named name; copied: the object is a key copied by
\* deepcopy.  "var in self.terms" finds the entry at once when it holds the very
\* same object, and compares with __eq__ when it holds another object of that name
add_term_key(expr, name, copied, coefficient) ==
    IF Raised(expr) THEN expr
    ELSE IF name \in DOMAIN expr.terms
    THEN IF copied \/ name \in expr.copies
         THEN RecursionError
         ELSE IF AbsBelowEps(FAdd(expr.terms[name], coefficient))
              THEN [expr EXCEPT !.terms = [k \in DOMAIN expr.terms \ {name} |-> expr.terms[k]]]
              ELSE [expr EXCEPT !.terms[name] = FAdd(expr.terms[name], coefficient)]
    ELSE [expr EXCEPT !.terms = [k \in DOMAIN expr.terms \cup {name} |->
                                    IF k = name THEN coefficient ELSE expr.terms[k]],
                      !.copies = IF copied THEN expr.copies \cup {name} ELSE expr.copies]

\* add_term called with a variable the caller holds
add_term(expr, var, coefficient) == add_term_key(expr, var.name, FALSE, coefficient)

\* scale
scale(expr, factor) ==
    [expr EXCEPT !.terms = [k \in DOMAIN expr.terms |-> FMul(expr.terms[k], factor)],
                 !.constant = FMul(expr.constant, factor)]

\* the variables an expression is built from
var_x == LPVariable("x", PZero, PInf)
var_y == LPVariable("y", PZero, PInf)
ExprVariables == {var_x, var_y}
ExprNames == <<"x", "y">>

\* for var, coef in other.terms.items(): result.add_term(var, coef), or -coef
RECURSIVE add_terms(_, _, _, _)
add_terms(into, other, names, negate) ==
    IF names = <<>> THEN into
    ELSE add_terms(IF Head(names) \in DOMAIN other.terms
                   THEN add_term_key(into, Head(names), Head(names) \in other.copies,
                                     IF negate THEN FNeg(other.terms[Head(names)])
                                     ELSE other.terms[Head(names)])
                   ELSE into,
                   other, Tail(names), negate)

\* result.constant += k (or -= k) on a result that was built without raising
add_constant(into, k) == IF Raised(into) THEN into ELSE [into EXCEPT !.constant = FAdd(into.constant, k)]

\* LPConstraint(lhs, sense, rhs) when evaluating lhs did not raise
constraint_of(lhs, sense, rhs) == IF Raised(lhs) THEN lhs ELSE LPConstraint(lhs, sense, rhs)

\* LPVariable.__add__; kind is the isinstance branch taken for other
LPVariable_add(self, kind, other) ==
    CASE kind = "number" -> LPExpression(dict_single(self.name, FromInt(1)), FromInt(other))
      [] kind = "LPVariable" ->
            LPExpression(dict_display(self.name, FromInt(1), other.name, FromInt(1)), PZero)
      [] kind = "LPExpression" -> add_term(deepcopy(other), self, FromInt(1))

\* LPVariable.__sub__
LPVariable_sub(self, kind, other) ==
    CASE kind = "number" -> LPExpression(dict_single(self.name, FromInt(1)), FromInt(-other))
      [] kind = "LPVariable" ->
            LPExpression(dict_display(self.name, FromInt(1), other.name, FromInt(-1)), PZero)
      [] kind = "LPExpression" ->
            add_term(scale(deepcopy(other), FromInt(-1)), self, FromInt(1))

\* LPVariable.__mul__ (other is a number)
LPVariable_mul(self, other) ==
    LPExpression(dict_single(self.name, FromInt(other)), PZero)

\* LPVariable.__le__, __ge__ and the __eq__ defined last, which differ in the sense only
LPVariable_compare(self, sense, kind, other) ==
    CASE kind = "number" ->
            LPConstraint(LPExpression(dict_single(self.name, FromInt(1)), PZero),
                         sense, FromInt(other))
      [] kind = "LPVariable" ->
            LPConstraint(LPExpression(dict_display(self.name, FromInt(1), other.name, FromInt(-1)),
                                      PZero),
                         sense, PZero)
      [] kind = "LPExpression" -> constraint_of(LPVariable_sub(self, kind, other), sense, PZero)

\* LPExpression.__add__
LPExpression_add(self, kind, other) ==
    CASE kind = "number" -> add_constant(deepcopy(self), FromInt(other))
      [] kind = "LPVariable" -> add_term(deepcopy(self), other, FromInt(1))
      [] kind = "LPExpression" ->
            add_constant(add_terms(deepcopy(self), other, ExprNames, FALSE), other.constant)

\* LPExpression.__sub__
LPExpression_sub(self, kind, other) ==
    CASE kind = "number" -> add_constant(deepcopy(self), FromInt(-other))
      [] kind = "LPVariable" -> add_term(deepcopy(self), other, FromInt(-1))
      [] kind = "LPExpression" ->
            add_constant(add_terms(deepcopy(self), other, ExprNames, TRUE), FNeg(other.constant))

\* LPExpression.__mul__ (other is a number)
LPExpression_mul(self, other) == scale(deepcopy(self), FromInt(other))

\* LPExpression.__le__, __ge__ and __eq__, which differ in the sense only
LPExpression_compare(self, sense, kind, other) ==
    CASE kind = "number" -> LPConstraint(deepcopy(self), sense, FromInt(other))
      [] kind = "LPVariable" -> constraint_of(LPExpression_sub(self, kind, other), sense, PZero)
      [] kind = "LPExpression" -> constraint_of(LPExpression_sub(self, kind, other), sense, PZero)

\* the operators of the two classes by their symbol
Arithmetic == {"+", "-"}
Comparisons == {"<=", ">=", "="}

LPVariable_op(op, self, kind, other) ==
    CASE op = "+" -> LPVariable_add(self, kind, other)
      [] op = "-" -> LPVariable_sub(self, kind, other)
      [] op = "*" -> LPVariable_mul(self, other)
      [] op \in Comparisons -> LPVariable_compare(self, op, kind, other)

LPExpression_op(op, self, kind, other) ==
    CASE op = "+" -> LPExpression_add(self, kind, other)
      [] op = "-" -> LPExpression_sub(self, kind, other)
      [] op = "*" -> LPExpression_mul(self, other)
      [] op \in Comparisons -> LPExpression_compare(self, op, kind, other)

\* the numbers used as operands
Numbers == ((-MaxNumber)..MaxNumber) \ {0}

\* the names add_variable gives by default: x0, x1, ...
DefaultNames == <<"x0", "x1", "x2">>

\* the bounds given to the variables: the defaults (0, inf) and the box (0, 1)
VarBounds == {[lb |-> PZero, ub |-> PInf], [lb |-> PZero, ub |-> FromInt(1)]}

\* the senses given to a constraint: the three of LPConstraint and one it does not know
Senses == {"<=", ">=", "=", "<"}

ModelCoefs == {FromInt(k) : k \in ((-MaxModelCoef)..MaxModelCoef) \ {0}}

\* the expressions over the variables named in names
ExpressionsOver(names) ==
    {LPExpression(t, FromInt(k)) :
        t \in UNION {[S -> ModelCoefs] : S \in SUBSET names},
        k \in 0..MaxModelConst}

\* the constraints over the variables named in names
ConstraintsOver(names) ==
    {LPConstraint(e, s, FromInt(r)) :
        e \in ExpressionsOver(names), s \in Senses, r \in 1..MaxModelRhs}

\* the names of the variables of the model
VariableNames == {model.variables[j].name : j \in 1..Len(model.variables)}

\* ------------------------------------------------------------------------
\* LPSolver.__init__
Init ==
    /\ c = None /\ A = None /\ b = None /\ max_iterations = 0
    /\ tableau = None
    /\ num_variables = 0
    /\ num_constraints = 0
    /\ basis = None
    /\ objective_value = None
    /\ solution = None
    /\ iteration = 0
    /\ pc = "idle"
    /\ result = None
    /\ pivots = 0
    /\ visited = {}
    /\ args0 = None
    /\ memo = None
    /\ interleaved = FALSE
    /\ model = LPModel
    /\ value = None
    /\ algebra = None
    /\ ops = 0

\* solve, from its entry to the first test of the while loop; dtype is the element
\* type of the caller's arrays
solve_begin_of(cc, AA, bb, cap, dtype) ==
    LET nc == Len(AA)
        sf == standard_form_of(cc, AA, bb, dtype)
        nv == Len(sf.A_new[1])
    IN  /\ c' = cc /\ A' = AA /\ b' = bb /\ max_iterations' = cap
        /\ num_constraints' = nc
        /\ num_variables' = nv
        /\ tableau' = create_initial_tableau_of(sf.c_new, sf.A_new, sf.b, dtype)
        /\ basis' = initialize_basis(nv, nc)
        /\ iteration' = 0
        /\ pc' = "loop"
        /\ result' = None
        /\ pivots' = 0
        /\ visited' = {initialize_basis(nv, nc)}
        /\ args0' = [c |-> cc, A |-> AA, b |-> bb]
        /\ UNCHANGED <<objective_value, solution>>

\* solve called with arrays (or lists) of integers
solve_begin(cc, AA, bb, cap) == solve_begin_of(cc, AA, bb, cap, "int")

\* a call of solve on a new instance
Solve ==
    /\ pc = "idle"
    /\ \E a \in CallArgs : solve_begin(a.c, a.A, a.b, a.max_iterations)
    /\ UNCHANGED <<memo, interleaved, front>>

\* a call of solve on an instance that may have been used before
SolveReuse ==
    /\ pc \in {"idle", "done", "raised"}
    /\ \E a \in ReuseArgs :
         /\ solve_begin(a.c, a.A, a.b, a.max_iterations)
         /\ \/ /\ pc # "idle"
               /\ [c |-> c, A |-> A, b |-> b, max_iterations |-> max_iterations] \in ProbeArgs
               /\ memo' = [args |-> [c |-> c, A |-> A, b |-> b, max_iterations |-> max_iterations],
                           pc |-> pc, result |-> result]
               /\ interleaved' = FALSE
            \/ /\ memo' = memo
               /\ interleaved' = (interleaved \/ (memo # None /\ memo.args # a))
    /\ UNCHANGED front

entering == get_entering_variable(tableau)

\* while iteration < max_iterations fails: the return after the loop
ReturnIterationLimit ==
    /\ pc = "loop"
    /\ ~(iteration < max_iterations)
    /\ result' = [status |-> "iteration_limit", iterations |-> max_iterations]
    /\ pc' = "done"
    /\ UNCHANGED <<c, A, b, max_iterations, fields, iteration, history, front>>

\* entering_idx is None: extract the solution and return "optimal"
ReturnOptimal ==
    /\ pc = "loop"
    /\ iteration < max_iterations
    /\ entering = NoneIdx
    /\ LET es == extract_solution(tableau, basis, num_variables, num_constraints)
       IN  /\ solution' = es.solution
           /\ objective_value' = es.objective_value
           /\ result' = [status |-> "optimal", solution |-> es.solution,
                         objective_value |-> es.objective_value, iterations |-> iteration]
    /\ pc' = "done"
    /\ UNCHANGED <<c, A, b, max_iterations, tableau, num_variables, num_constraints, basis,
                   iteration, history, front>>

\* the "unbounded" return reporting one iteration too many
ReturnUnbounded_OffByOne ==
    /\ pc = "loop"
    /\ iteration < max_iterations
    /\ entering # NoneIdx
    /\ ~leaving_raises(tableau, entering)
    /\ get_leaving_variable(tableau, entering) = NoneIdx
    /\ result' = [status |-> "unbounded", iterations |-> iteration + 1]
    /\ pc' = "done"
    /\ UNCHANGED <<c, A, b, max_iterations, fields, iteration, history, front>>

\* leaving_idx is None: return "unbounded"
ReturnUnbounded ==
    /\ pc = "loop"
    /\ iteration < max_iterations
    /\ entering # NoneIdx
    /\ ~leaving_raises(tableau, entering)
    /\ get_leaving_variable(tableau, entering) = NoneIdx
    /\ result' = [status |-> "unbounded", iterations |-> iteration]
    /\ pc' = "done"
    /\ UNCHANGED <<c, A, b, max_iterations, fields, iteration, history, front>>

\* min() in get_leaving_variable raises ValueError, which solve does not catch
RaiseValueError ==
    /\ pc = "loop"
    /\ iteration < max_iterations
    /\ entering # NoneIdx
    /\ leaving_raises(tableau, entering)
    /\ pc' = "raised"
    /\ UNCHANGED <<c, A, b, max_iterations, fields, iteration, result, history, front>>

\* pivot working on a tableau whose last column is the caller's b itself (a view,
\* not a copy): the new right-hand sides are stored into b
pivot_InPlace(entering_idx, leaving_idx) ==
    /\ tableau' = pivot_tableau(tableau, entering_idx, leaving_idx)
    /\ basis' = pivot_basis(basis, entering_idx, leaving_idx)
    /\ b' = [i \in 1..Len(b) |->
                pivot_tableau(tableau, entering_idx, leaving_idx)[i + 1][Len(tableau[1])][1]]
    /\ UNCHANGED <<c, A>>

\* pivot: row operations on self.tableau, then the basis update
pivot(entering_idx, leaving_idx) ==
    /\ tableau' = pivot_tableau(tableau, entering_idx, leaving_idx)
    /\ basis' = pivot_basis(basis, entering_idx, leaving_idx)
    /\ UNCHANGED <<c, A, b>>

\* one pass of the loop body that pivots: pivot, then iteration += 1
Iterate ==
    /\ pc = "loop"
    /\ iteration < max_iterations
    /\ entering # NoneIdx
    /\ ~leaving_raises(tableau, entering)
    /\ get_leaving_variable(tableau, entering) # NoneIdx
    /\ pivot(entering, get_leaving_variable(tableau, entering))
    /\ iteration' = iteration + 1
    /\ pivots' = pivots + 1
    /\ visited' = visited \cup {basis'}
    /\ UNCHANGED <<max_iterations, num_variables, num_constraints, objective_value, solution,
                   pc, result, args0, memo, interleaved, front>>

Loop ==
    \/ ReturnIterationLimit
    \/ ReturnOptimal
    \/ ReturnUnbounded
    \/ RaiseValueError
    \/ Iterate

Next == Solve \/ Loop

Spec == Init /\ [][Next]_vars

NextReuse == SolveReuse \/ Loop

SpecReuse == Init /\ [][NextReuse]_vars

\* add_variable: the new variable takes the next index
add_variable(name, lb, ub) ==
    /\ model' = [model EXCEPT !.variables =
                    Append(@, [LPVariable(name, lb, ub) EXCEPT !.index = Len(model.variables)])]

\* a call of add_variable with the default name, before the model has rows or an objective
AddVariable ==
    /\ pc = "idle"
    /\ Len(model.variables) < MaxModelVars
    /\ model.constraints = <<>> /\ model.objective = None
    /\ \E bnd \in VarBounds :
          add_variable(DefaultNames[Len(model.variables) + 1], bnd.lb, bnd.ub)
    /\ UNCHANGED <<c, A, b, max_iterations, fields, iteration, pc, result, history, building>>

\* set_objective with an expression over the model's variables
SetObjective ==
    /\ pc = "idle"
    /\ model.variables # <<>>
    /\ model.constraints = <<>> /\ model.objective = None
    /\ \E expr \in ExpressionsOver(VariableNames), sense \in {"maximize", "minimize"} :
          model' = [model EXCEPT !.objective = expr, !.sense = sense]
    /\ UNCHANGED <<c, A, b, max_iterations, fields, iteration, pc, result, history, building>>

\* add_constraint with a constraint over the model's variables
AddConstraint ==
    /\ pc = "idle"
    /\ model.variables # <<>>
    /\ Len(model.constraints) < MaxModelRows
    /\ (Len(model.constraints) + 1) * Len(model.variables) <= MaxModelSize
    /\ \E constraint \in ConstraintsOver(VariableNames) :
          model' = [model EXCEPT !.constraints = Append(@, constraint)]
    /\ UNCHANGED <<c, A, b, max_iterations, fields, iteration, pc, result, history, building>>

\* LPModel.solve up to the first test of the solver's loop: to_standard_form, then
\* LPSolver().solve(c, A, b) with the default cap on float64 arrays
ModelSolve ==
    /\ pc = "idle"
    /\ model.variables # <<>> /\ model.constraints # <<>>
    /\ ~to_standard_form_raises(model)
    /\ LET sf == to_standard_form(model)
       IN  solve_begin_of(sf.c, sf.A, sf.b, DefaultMaxIterations, "float64")
    /\ UNCHANGED <<memo, interleaved, front>>

\* LPModel.solve when to_standard_form raises ValueError: no solver is created
ModelSolveRaises ==
    /\ pc = "idle"
    /\ model.variables # <<>> /\ model.constraints # <<>>
    /\ to_standard_form_raises(model)
    /\ pc' = "raised"
    /\ UNCHANGED <<c, A, b, max_iterations, fields, iteration, result, history, front>>

\* the end of LPModel.solve: an "optimal" result gets variable_values, name -> value
ModelReturn ==
    /\ pc = "done"
    /\ result' = IF result.status = "optimal"
                 THEN [status |-> result.status, solution |-> result.solution,
                       objective_value |-> result.objective_value,
                       iterations |-> result.iterations,
                       variable_values |->
                           [name \in VariableNames |->
                               result.solution[(CHOOSE j \in 1..Len(model.variables) :
                                                   model.variables[j].name = name)]]]
                 ELSE result
    /\ pc' = "returned"
    /\ UNCHANGED <<c, A, b, max_iterations, fields, iteration, history, front>>

NextModel ==
    \/ AddVariable
    \/ SetObjective
    \/ AddConstraint
    \/ ModelSolve
    \/ ModelSolveRaises
    \/ Loop
    \/ ModelReturn

SpecModel == Init /\ [][NextModel]_vars

\* the state outside the expression being built
elsewhere == <<c, A, b, max_iterations, fields, iteration, pc, result, history, model>>

\* LPExpression(): no terms, constant 0.0
EmptyExpression == LPExpression([k \in {} |-> PZero], PZero)

\* an operand as the expression it stands for, its terms keyed by the caller's objects
AsExpression(kind, other) ==
    CASE kind = "number" -> add_constant(EmptyExpression, FromInt(other))
      [] kind = "LPVariable" -> add_term(EmptyExpression, other, FromInt(1))
      [] kind = "LPExpression" -> [other EXCEPT !.copies = {}]

\* left op right combined term by term through add_term
Combined(op, left, kind, right) ==
    CASE op = "+" -> add_constant(add_terms(left, right, ExprNames, FALSE), right.constant)
      [] op = "*" -> scale(left, right.constant)
      [] op \in Comparisons /\ kind = "number" -> left
      [] OTHER -> add_constant(add_terms(left, right, ExprNames, TRUE), FNeg(right.constant))

IsExpression(v) == "terms" \in DOMAIN v

\* v op k for a variable v and a number k
VariableWithNumber ==
    /\ pc = "idle" /\ ops < MaxOps
    /\ \E v \in ExprVariables, op \in Arithmetic \cup {"*"} \cup Comparisons, k \in Numbers :
          /\ value' = LPVariable_op(op, v, "number", k)
          /\ algebra' = Combined(op, AsExpression("LPVariable", v), "number",
                                 AsExpression("number", k))
    /\ ops' = ops + 1
    /\ UNCHANGED elsewhere

\* v op w for two variables, which may be the same object
VariableWithVariable ==
    /\ pc = "idle" /\ ops < MaxOps
    /\ \E v \in ExprVariables, op \in Arithmetic \cup Comparisons, w \in ExprVariables :
          /\ value' = LPVariable_op(op, v, "LPVariable", w)
          /\ algebra' = Combined(op, AsExpression("LPVariable", v), "LPVariable",
                                 AsExpression("LPVariable", w))
    /\ ops' = ops + 1
    /\ UNCHANGED elsewhere

\* v op e for a variable v and the expression e built so far
VariableWithExpression ==
    /\ pc = "idle" /\ ops < MaxOps
    /\ IsExpression(value)
    /\ \E v \in ExprVariables, op \in Arithmetic \cup Comparisons :
          /\ value' = LPVariable_op(op, v, "LPExpression", value)
          /\ algebra' = Combined(op, AsExpression("LPVariable", v), "LPExpression", algebra)
    /\ ops' = ops + 1
    /\ UNCHANGED elsewhere

\* e op k for the expression e built so far and a number k
ExpressionWithNumber ==
    /\ pc = "idle" /\ ops < MaxOps
    /\ IsExpression(value)
    /\ \E op \in Arithmetic \cup {"*"} \cup Comparisons, k \in Numbers :
          /\ value' = LPExpression_op(op, value, "number", k)
          /\ algebra' = Combined(op, algebra, "number", AsExpression("number", k))
    /\ ops' = ops + 1
    /\ UNCHANGED elsewhere

\* e op w for the expression e built so far and a variable w
ExpressionWithVariable ==
    /\ pc = "idle" /\ ops < MaxOps
    /\ IsExpression(value)
    /\ \E op \in Arithmetic \cup Comparisons, w \in ExprVariables :
          /\ value' = LPExpression_op(op, value, "LPVariable", w)
          /\ algebra' = Combined(op, algebra, "LPVariable", AsExpression("LPVariable", w))
    /\ ops' = ops + 1
    /\ UNCHANGED elsewhere

\* e op f for the expression e built so far and f either e itself or k * w
ExpressionWithExpression ==
    /\ pc = "idle" /\ ops < MaxOps
    /\ IsExpression(value)
    /\ \E op \in Arithmetic \cup Comparisons :
          \/ /\ value' = LPExpression_op(op, value, "LPExpression", value)
             /\ algebra' = Combined(op, algebra, "LPExpression", algebra)
          \/ \E w \in ExprVariables, k \in Numbers :
                /\ value' = LPExpression_op(op, value, "LPExpression", LPVariable_mul(w, k))
                /\ algebra' = Combined(op, algebra, "LPExpression",
                                       AsExpression("LPExpression", LPVariable_mul(w, k)))
    /\ ops' = ops + 1
    /\ UNCHANGED elsewhere

\* e.add_term(w, k) called on the expression built so far
AddTerm ==
    /\ pc = "idle" /\ ops < MaxOps
    /\ IsExpression(value)
    /\ \E w \in ExprVariables, k \in Numbers :
          /\ value' = add_term(value, w, FromInt(k))
          /\ algebra' = add_term(algebra, w, FromInt(k))
    /\ ops' = ops + 1
    /\ UNCHANGED elsewhere

NextExpr ==
    \/ VariableWithNumber
    \/ VariableWithVariable
    \/ VariableWithExpression
    \/ ExpressionWithNumber
    \/ ExpressionWithVariable
    \/ ExpressionWithExpression
    \/ AddTerm

SpecExpr == Init /\ [][NextExpr]_vars

\* ------------------------------------------------------------------------
\* Vocabulary of the properties
\* ------------------------------------------------------------------------
RECURSIVE SumSeq(_)
SumSeq(s) == IF s = <<>> THEN PZero ELSE FAdd(s[1], SumSeq(Tail(s)))

RECURSIVE IntSum(_)
IntSum(s) == IF s = <<>> THEN 0 ELSE s[1] + IntSum(Tail(s))

\* sum of w[j] * x[j] for an integer vector w and a vector x of doubles
Dot(w, x) == SumSeq([j \in 1..Len(w) |-> FMul(FromInt(w[j]), x[j])])

returned == pc = "done"
status == result.status
NStruct == Len(c)
NRows == Len(A)
NonnegB == \A i \in 1..Len(b) : b[i] >= 0
LastCol == Len(tableau[1])

\* the point x satisfies x >= 0 and A.x <= b
Feasible(x) ==
    /\ \A j \in 1..NStruct : FLe(PZero, x[j])
    /\ \A i \in 1..NRows : FLe(Dot(A[i], x), FromInt(b[i]))

\* the entries of the objective row under the slack columns: multipliers u >= 0
\* with u.A >= c and u.b = z, so that c.y <= u.A.y <= u.b = z for every feasible y
DualCertificate(z) ==
    LET u == [i \in 1..NRows |-> tableau[1][NStruct + i]]
    IN  /\ \A i \in 1..NRows : FLe(PZero, u[i])
        /\ \A j \in 1..NStruct :
              FLe(FromInt(c[j]), SumSeq([i \in 1..NRows |-> FMul(u[i], FromInt(A[i][j]))]))
        /\ FEq(SumSeq([i \in 1..NRows |-> FMul(u[i], FromInt(b[i]))]), z)

\* the points y = k / GridDen with every k[j] in 0..GridMax
GridPoints == [1..NStruct -> 0..GridMax]
GridFeasible(k) ==
    \A i \in 1..NRows : IntSum([j \in 1..NStruct |-> A[i][j] * k[j]]) <= GridDen * b[i]
\* c.y <= z for y = k / GridDen and a finite z
GridNoBetter(k, z) ==
    IntSum([j \in 1..NStruct |-> c[j] * k[j]]) * Abs(z[2]) <= GridDen * z[1]

\* ------------------------------------------------------------------------
\* Properties
\* ------------------------------------------------------------------------

C2_ObjectiveValueIsCx ==
    (returned /\ status = "optimal") =>
        /\ FEq(result.objective_value, Dot(c, result.solution))
        /\ ([c |-> c, A |-> A, b |-> b] = Scenario2 =>
                result.solution = <<FromInt(5)>> /\ result.objective_value = FromInt(5))

C4_NeverRaises ==
    max_iterations >= 0 =>
        /\ pc # "raised"
        /\ (returned => status \in {"optimal", "unbounded", "iteration_limit"})

\* C5: for b >= 0 the pivot loop never returns to a basis it has visited, and with
\* the default cap a problem of at most 20 variables/rows never ends "iteration_limit".
C5_NoCycling ==
    (pc \in {"loop", "done"} /\ NonnegB) =>
        /\ Cardinality(visited) = pivots + 1
        /\ (returned /\ max_iterations = DefaultMaxIterations /\ NStruct <= 20 /\ NRows <= 20
                => status # "iteration_limit")

\* the entering column has no row i with T[i, j] > 1e-10
NoCandidate == \A i \in 1..NRows : ~GtEps(tableau[i + 1][entering + 1])

\* the basic solution of the current tableau, over structural and slack variables
BasicValue(v) ==
    IF \E i \in 1..NRows : basis[i] = v
    THEN tableau[(CHOOSE i \in 1..NRows : basis[i] = v) + 1][LastCol]
    ELSE PZero

\* the direction that raises the entering variable and keeps every row satisfied
RayValue(v) ==
    IF v = entering THEN FromInt(1)
    ELSE IF \E i \in 1..NRows : basis[i] = v
    THEN FNeg(tableau[(CHOOSE i \in 1..NRows : basis[i] = v) + 1][entering + 1])
    ELSE PZero

\* A . p[structural] + p[slack of row i], for p a point or a direction
RowValue(i, p(_)) ==
    FAdd(SumSeq([j \in 1..NStruct |-> FMul(FromInt(A[i][j]), p(j - 1))]), p(NStruct + i - 1))

\* x = BasicValue is feasible and d = RayValue has d >= 0, A.d + d_slack = 0 and
\* c.d > 0: x + t.d is feasible for every t >= 0 and c.(x + t.d) grows without bound
UnboundedRay ==
    /\ \A v \in 0..(NStruct + NRows - 1) : FLe(PZero, BasicValue(v)) /\ FLe(PZero, RayValue(v))
    /\ \A i \in 1..NRows :
          /\ FEq(RowValue(i, BasicValue), FromInt(b[i]))
          /\ FEq(RowValue(i, RayValue), PZero)
    /\ FLt(PZero, SumSeq([j \in 1..NStruct |-> FMul(FromInt(c[j]), RayValue(j - 1))]))

IsScenario1Call ==
    /\ [c |-> c, A |-> A, b |-> b] = Scenario1
    /\ max_iterations = DefaultMaxIterations

C8_IterationsArePivots_AsStated ==
    returned =>
        /\ result.iterations = pivots
        /\ pivots <= max_iterations
        /\ (max_iterations = 0 /\ (\E j \in 1..NStruct : c[j] > 0)) =>
              (result = [status |-> "iteration_limit", iterations |-> 0] /\ pivots = 0)

\* C8: the same for every call with max_iterations >= 0.
C8_IterationsArePivots ==
    (returned /\ max_iterations >= 0) =>
        /\ result.iterations = pivots
        /\ pivots <= max_iterations
        /\ (max_iterations = 0 /\ (\E j \in 1..NStruct : c[j] > 0)) =>
              (result = [status |-> "iteration_limit", iterations |-> 0] /\ pivots = 0)

\* C8 witness: the cap was reached after at least one pivot and is reported as
\* the iteration count
C8_Witness ==
    /\ returned /\ max_iterations >= 1
    /\ status = "iteration_limit"
    /\ pivots = max_iterations /\ result.iterations = pivots

CurrentArgs == [c |-> c, A |-> A, b |-> b, max_iterations |-> max_iterations]

\* C9: a call with the arguments of an earlier call on the same instance ends the
\* same way (returned or raised) with the same result, whatever was solved between.
C9_SameArgsSameResult ==
    (pc \in {"done", "raised"} /\ memo # None /\ memo.args = CurrentArgs) =>
        /\ memo.pc = pc
        /\ memo.result = result

\* C9 witness: the second of two equal calls returned "optimal" after a pivot,
\* with a call on other arguments in between
C9_Witness ==
    /\ returned /\ memo # None /\ memo.args = CurrentArgs
    /\ interleaved
    /\ status = "optimal" /\ pivots >= 1

\* C10: during and after a call, whatever its outcome, the caller's c, A and b
\* hold the values they had when solve was called.
C10_ArgumentsUntouched ==
    pc \in {"loop", "done", "raised"} => [c |-> c, A |-> A, b |-> b] = args0

\* C10 witness: a call has returned after two pivots that changed the right-hand
\* sides of the tableau
C10_Witness ==
    /\ returned /\ pivots >= 2
    /\ \E i \in 1..NRows : ~FEq(tableau[i + 1][LastCol], FromInt(b[i]))

\* the columns of the tableau, right-hand side excluded, as 0-based indices
Columns == 0..(LastCol - 2)

\* row i (0-based, as get_leaving_variable numbers them) is a candidate in column j
IsCandidate(i, j) == GtEps(tableau[i + 2][j + 1])
CandidateRatio(i, j) == FDiv(tableau[i + 2][LastCol], tableau[i + 2][j + 1])

\* C14: for any tableau and any column j with a candidate row, get_leaving_variable
\* returns a candidate row of minimal ratio, the smallest row index among ties;
\* it never raises and never returns a row with T[i, j] <= 1e-10.
C14_LeavingRowIsMinRatio ==
    pc \in {"loop", "done"} =>
        \A j \in Columns :
            (\E i \in 0..(NRows - 1) : IsCandidate(i, j)) =>
                /\ ~leaving_raises(tableau, j)
                /\ LET r == get_leaving_variable(tableau, j)
                   IN  /\ r \in 0..(NRows - 1)
                       /\ IsCandidate(r, j)
                       /\ \A i \in 0..(NRows - 1) : IsCandidate(i, j) =>
                             /\ FLe(CandidateRatio(r, j), CandidateRatio(i, j))
                             /\ (FEq(CandidateRatio(r, j), CandidateRatio(i, j)) => r <= i)

\* the columns whose objective-row entry is < -1e-10
NegativeColumns == {j \in Columns : LtNegEps(tableau[1][j + 1])}

\* C15: get_entering_variable returns the smallest column index whose
\* objective-row entry is < -1e-10, and None exactly when there is none.
C15_EnteringIsFirstNegative ==
    pc \in {"loop", "done"} =>
        /\ (entering = NoneIdx) <=> (NegativeColumns = {})
        /\ entering # NoneIdx =>
              /\ entering \in NegativeColumns
              /\ \A k \in NegativeColumns : entering <= k

\* C15 witness: after a pivot the first negative column is chosen although a
\* later column is more negative
C15_Witness ==
    /\ pc = "loop" /\ pivots >= 1
    /\ entering # NoneIdx
    /\ \E k \in NegativeColumns : FLt(tableau[1][k + 1], tableau[1][entering + 1])

\* the column of basis[i] is the unit vector of tableau row i + 1
UnitBasisColumns ==
    \A i \in 1..NRows : \A r \in 1..(NRows + 1) :
        FEq(tableau[r][basis[i] + 1], IF r = i + 1 THEN FromInt(1) ELSE PZero)

\* C16: initially and after every pivot, each basic column is 1 in its own row and
\* 0 in every other row including row 0, the basis entries are pairwise distinct,
\* and a pivot on (entering j, leaving row r) sets basis[r] = j and nothing else.
C16_BasisColumnsAreUnit ==
    [][(pc' \in {"loop", "done"}) =>
          /\ UnitBasisColumns'
          /\ \A i, k \in 1..Len(basis') : i # k => basis'[i] # basis'[k]
          /\ (pc = "loop" /\ pivots' = pivots + 1) =>
                \E r \in 1..NRows : basis' = [basis EXCEPT ![r] = entering]
      ]_vars

\* C17: "iteration_limit" is returned only when the tableau left by the last pivot
\* still has an entry < -1e-10 in the objective row whose column has a candidate row.
C17_LimitOnlyIfNotConverged ==
    (returned /\ status = "iteration_limit") =>
        /\ entering # NoneIdx
        /\ \E i \in 0..(NRows - 1) : IsCandidate(i, entering)

\* the value of variable v in the basic solution of tableau T with basis bs
BasicValueOf(T, bs, v) ==
    IF \E i \in 1..Len(bs) : bs[i] = v
    THEN T[(CHOOSE i \in 1..Len(bs) : bs[i] = v) + 1][Len(T[1])]
    ELSE PZero

\* c.x for the basic solution of tableau T with basis bs
ObjectiveOf(T, bs) ==
    SumSeq([j \in 1..NStruct |-> FMul(FromInt(c[j]), BasicValueOf(T, bs, j - 1))])

\* the loop body is about to pivot
WillPivot ==
    /\ pc = "loop"
    /\ iteration < max_iterations
    /\ entering # NoneIdx
    /\ ~leaving_raises(tableau, entering)
    /\ get_leaving_variable(tableau, entering) # NoneIdx

ModelOptimal == pc = "returned" /\ result.status = "optimal"

\* the value of expression expr at the point vals (variable name -> value)
ExprValue(expr, vals) ==
    FAdd(SumSeq([j \in 1..Len(model.variables) |->
                    IF model.variables[j].name \in DOMAIN expr.terms
                    THEN FMul(expr.terms[model.variables[j].name], vals[model.variables[j].name])
                    ELSE PZero]),
         expr.constant)

\* the point vals satisfies the constraint as its sense reads
Holds(constraint, vals) ==
    LET l == ExprValue(constraint.lhs, vals)
    IN  CASE constraint.sense = "<=" -> FLe(l, constraint.rhs)
          [] constraint.sense = ">=" -> FLe(constraint.rhs, l)
          [] constraint.sense = "=" -> FEq(l, constraint.rhs)

\* C11: an "optimal" result of LPModel.solve satisfies every constraint of the
\* model, whatever its sense (<=, >=, =) and right-hand side.
C11_ConstraintsSatisfied ==
    ModelOptimal =>
        \A i \in 1..Len(model.constraints) :
            Holds(model.constraints[i], result.variable_values)

\* C12: an "optimal" result of LPModel.solve gives every variable a value
\* within the bounds lb <= v <= ub it was created with.
C12_BoundsRespected ==
    ModelOptimal =>
        \A j \in 1..Len(model.variables) :
            /\ FLe(model.variables[j].lower_bound, result.variable_values[model.variables[j].name])
            /\ FLe(result.variable_values[model.variables[j].name], model.variables[j].upper_bound)

\* C13: for sense "minimize" the objective_value of an "optimal" result equals
\* the model's objective expression evaluated at variable_values.
C13_MinimizeObjectiveValue ==
    (ModelOptimal /\ model.sense = "minimize" /\ model.objective # None) =>
        FEq(result.objective_value, ExprValue(model.objective, result.variable_values))

\* row i of the arrays cc, AA, bb is constraint i as the claim converts it
ConvertedRow(i, AA, bb) ==
    LET constraint == model.constraints[i]
        bound == FSub(constraint.rhs, constraint.lhs.constant)
        coef(j) == IF model.variables[j].name \in DOMAIN constraint.lhs.terms
                   THEN constraint.lhs.terms[model.variables[j].name]
                   ELSE PZero
    IN  IF constraint.sense = ">="
        THEN /\ bb[i] = FNeg(bound)
             /\ \A j \in 1..Len(model.variables) : AA[i][j] = FNeg(coef(j))
        ELSE /\ bb[i] = bound
             /\ \A j \in 1..Len(model.variables) : AA[i][j] = coef(j)

\* C19: to_standard_form turns each constraint into one <= row ('<=' and '=' keep
\* the coefficients with b = rhs - k, '>=' negates both); with any other sense the
\* call raises, hands no arrays to a solver and leaves the model as it was.
C19_StandardFormRows ==
    [][(pc = "idle" /\ pc' # "idle") =>
          /\ model' = model
          /\ IF \E i \in 1..Len(model.constraints) :
                    model.constraints[i].sense \notin {"<=", ">=", "="}
             THEN pc' = "raised" /\ c' = None /\ A' = None /\ b' = None /\ tableau' = None
             ELSE /\ pc' = "loop"
                  /\ Len(A') = Len(model.constraints) /\ Len(b') = Len(model.constraints)
                  /\ \A i \in 1..Len(model.constraints) : ConvertedRow(i, A', b')
      ]_vars

\* C19 witness: a '>=' constraint with constant 1 and right-hand side 2 has become
\* a row with bound -1
C19_Witness ==
    /\ pc = "loop" /\ model.constraints # <<>>
    /\ model.constraints[1].sense = ">="
    /\ model.constraints[1].lhs.constant = FromInt(1)
    /\ model.constraints[1].rhs = FromInt(2)
    /\ b[1] = FromInt(-1)

\* the terms of an expression, or of the left-hand side of a constraint
TermsOf(v) == IF "lhs" \in DOMAIN v THEN v.lhs.terms ELSE v.terms

\* C20: an expression or constraint built with the operators of LPVariable and
\* LPExpression maps each variable to the sum of its contributions, as add_term
\* combines them, also when both operands are the same variable (x + x has
\* coefficient 2, x - x and x <= x have no term for x).
C20_TermsAreAlgebraicSums ==
    ops > 0 =>
        /\ ~Raised(value)
        /\ DOMAIN TermsOf(value) = DOMAIN algebra.terms
        /\ \A k \in DOMAIN algebra.terms : FEq(TermsOf(value)[k], algebra.terms[k])

====
